---------------------------- MODULE Spec2Model ----------------------------
(***************************************************************************)
(* A model of the rate-limiting and performance-accounting core of         *)
(* google-ads-scraper:                                                     *)
(*   src/src/utils/rate_limiter.py        RateLimiterConfig, RateLimiter   *)
(*   src/src/utils/performance_monitor.py PerformanceStats,                *)
(*                                        PerformanceMonitor               *)
(* Spec follows the limiter (the monitor stays as constructed), SpecPM     *)
(* follows the monitor (the limiter stays as constructed), and SpecCfg     *)
(* follows the construction of a configuration and of its limiter from     *)
(* arbitrary arguments.                                                    *)
(*                                                                         *)
(* Callers are asyncio tasks sharing one RateLimiter.  asyncio schedules   *)
(* cooperatively, so a task runs without interleaving from one suspension  *)
(* point to the next; the suspension points of the limiter are the wait    *)
(* for self.lock (async with self.lock) and asyncio.sleep(delay).  Each    *)
(* action below is one such uninterrupted run of a coroutine.  A call in   *)
(* progress is therefore either queued for the lock (waiters) or asleep    *)
(* inside the critical section (sleepers); a task with no call in progress *)
(* has no state.                                                           *)
(*                                                                         *)
(* Time is the reading of time.monotonic(), in whole seconds.  The token   *)
(* count is a float in the code; here it is kept exactly, as the integer   *)
(* tokens * time_window (so one token is time_window units and a refill    *)
(* of time_passed seconds adds time_passed * max_requests units).  Float   *)
(* rounding is left out, and asyncio.sleep(d) returns no earlier than d    *)
(* seconds after it began (it may return later).                           *)
(***************************************************************************)
EXTENDS Integers, Sequences, FiniteSets

\* ------------------------------------------------------------ bounds ----
MaxQueue     == 2      \* calls queued for the lock at once
MaxRequests  == 2      \* largest max_requests tried
MaxWindow    == 2      \* largest time_window tried (seconds)
MaxBurst     == 1      \* largest burst_size tried
ShortTime    == 3      \* the clock is followed second by second this long
MaxWindowSize == 3     \* largest PerformanceMonitor window_size tried
MaxDuration  == 3      \* largest scrape duration tried (seconds)
MaxScrapes   == 3      \* add_scrape calls followed since construction/reset
MaxMinutes   == 2      \* minutes of wall-clock time followed by the monitor
MaxUrlLen    == 5      \* longest proxy URL tried (characters)

\* ---------------------------------------------------------- constants ---
DefaultMaxAge == 3600  \* cleanup_history(max_age: int = 3600)
DefaultWindowSize == 100  \* PerformanceMonitor.__init__(window_size: int = 100)
DefaultRotationInterval == 300  \* ProxyConfig.rotation_interval: int = 300
DefaultMaxRetries == 3    \* ProxyConfig.max_retries: int = 3

Keys    == {"a"}
None    == "None"
KeyArgs == Keys \cup {None}

\* The clock advances by a second, or by a long idle period of max-age length;
\* it is followed for ShortTime seconds from the start and again for ShortTime
\* seconds once a max-age period has gone by.
TickSteps == {1, DefaultMaxAge}
MaxTime   == DefaultMaxAge + ShortTime
Instants  == (0..ShortTime) \cup (DefaultMaxAge..MaxTime)

Min(a, b) == IF a <= b THEN a ELSE b
Max(a, b) == IF a >= b THEN a ELSE b

VARIABLES
    now,              \* time.monotonic()
    config,           \* RateLimiter.config
    tokens,           \* RateLimiter.tokens, times config.time_window
    last_update,      \* RateLimiter.last_update
    request_history,  \* RateLimiter.request_history: key -> instant
    closed,           \* RateLimiter._closed
    locked,           \* RateLimiter.lock: asyncio.Lock._locked
    waiters,          \* RateLimiter.lock: asyncio.Lock._waiters, FIFO; each
                      \* entry is the queued call [op, key]
    sleepers,         \* the acquire() calls suspended in asyncio.sleep(delay)
                      \* inside the critical section: [key, start]
    lastCall,         \* ghost: how the latest completed call ended
    lastGrant,        \* ghost: <<instant of the latest grant>>, or <<>>
    rapidGrants,      \* ghost: grants made while the clock still reads 0
    wall,             \* datetime.now(), in whole minutes
    window_size,      \* PerformanceMonitor.window_size
    scrape_times,     \* PerformanceMonitor.scrape_times (deque, oldest first)
    success_history,  \* PerformanceMonitor.success_history (deque)
    start_time,       \* PerformanceMonitor.start_time
    total_requests,   \* PerformanceMonitor.total_requests
    successful_requests, \* PerformanceMonitor.successful_requests
    last_stats,       \* PerformanceMonitor._last_stats: <<>> (None) or <<stats>>
    returned,         \* ghost: <<what the latest get_stats() returned>>, forgotten
                      \* at the next add_scrape() or reset()
    previous,         \* ghost: <<what the get_stats() before the latest one
                      \* returned>>, if no add_scrape() or reset() came
                      \* between the two; else <<>>
    reported,         \* ghost: <<[dict, at]>>, what the latest get_stats_dict()
                      \* returned and the wall time of that call; forgotten at
                      \* the next add_scrape() or reset()
    afterReset,       \* ghost: <<[cached, at]>> while no add_scrape() followed
                      \* the latest reset(): whether a snapshot was cached when
                      \* reset() was called, and the wall time of that call
    scrapeLog,        \* ghost: the add_scrape calls since construction or the
                      \* last reset, oldest first: [duration, success]
    threads,          \* the callers of the monitor that run as threads: for
                      \* each its position in the method it runs and its locals
    proxyArgs,        \* the arguments of a ProxyConfig(...) call
    proxyCall,        \* that call: "args" (src.config not imported yet),
                      \* "IndentationError", "imported", "ValueError", "built"
    proxy,            \* <<the ProxyConfig object built>>, or <<>>
    tracked           \* ghost: the acquire() call in progress that is being
                      \* followed: 0 none, n >= 1 the n-th call queued for the
                      \* lock, -1 the call asleep in the section

rlVars == <<now, config, tokens, last_update, request_history, closed, locked,
            waiters, sleepers, lastCall, lastGrant, rapidGrants>>

pmVars == <<wall, window_size, scrape_times, success_history, start_time,
            total_requests, successful_requests, last_stats, returned,
            previous, reported, afterReset, scrapeLog>>

thVars == <<threads>>

pxVars == <<proxyArgs, proxyCall, proxy>>

vars == <<rlVars, pmVars, thVars, pxVars, tracked>>

\* What the operations of the limiter, of the monitor, and of the monitor's
\* threads leave alone.
elsewhere  == <<pmVars, thVars, pxVars>>
notLimiter == <<elsewhere, tracked>>
notMonitor == <<rlVars, thVars, pxVars, tracked>>
notThreads == <<rlVars, pxVars, tracked>>
notProxy   == <<rlVars, pmVars, thVars, tracked>>

limiter == <<tokens, last_update, request_history, closed>>

\* --------------------------------------------------- RateLimiterConfig --
\* mutant: a check that lets max_requests = 0 through
ConfigValidLax(c) ==
    /\ ~(c.max_requests < 0)
    /\ ~(c.time_window <= 0)
    /\ ~(c.min_delay < 0)
    /\ ~(c.burst_size < 0)

\* RateLimiterConfig.__post_init__: the four checks, in order.
ConfigValid(c) ==
    /\ ~(c.max_requests <= 0)
    /\ ~(c.time_window <= 0)
    /\ ~(c.min_delay < 0)
    /\ ~(c.burst_size < 0)

\* min_delay is either absent or longer than the time any tried rate takes to
\* make one token, so that both arms of the delay's max() are exercised.
MinDelays == {0, MaxWindow + 1}

Configs ==
    { c \in [max_requests : 1..MaxRequests, time_window : 1..MaxWindow,
             min_delay : MinDelays, burst_size : 0..MaxBurst] :
        ConfigValid(c) }

\* float(config.max_requests + config.burst_size), in token units
Ceiling == (config.max_requests + config.burst_size) * config.time_window
\* one whole token, in token units
OneToken == config.time_window

\* ------------------------------------------------------- pure helpers ---
\* mutant: a refill that adds nothing
RefillNothing(tok, since, t) == tok

\* mutant: a refill that forgets to clamp to the ceiling
RefillNoClamp(tok, since, t) == tok + (t - since) * config.max_requests

\* _refill_tokens: min(ceiling, tokens + time_passed * max_requests/time_window)
RefillTokens(tok, since, t) ==
    Min(Ceiling, tok + (t - since) * config.max_requests)

\* mutant: a sleep of half the time one token takes
DelayHalved(start, t) ==
    /\ 2 * (t - start) * config.max_requests >= config.time_window
    /\ (t - start) >= config.min_delay

\* mutant: a delay that forgets the min_delay floor
DelayNoFloor(start, t) == (t - start) * config.max_requests >= config.time_window

\* asyncio.sleep(self._calculate_delay()) begun at `start` has returned by t:
\* delay = max(1 / (max_requests / time_window), min_delay)
DelayElapsed(start, t) ==
    /\ (t - start) * config.max_requests >= config.time_window
    /\ (t - start) >= config.min_delay

\* mutant: a cleanup that also drops the entries of age exactly max_age
CleanupStrict(h, max_age, t) ==
    LET keep == { k \in DOMAIN h : (t - h[k]) < max_age }
    IN  [k \in keep |-> h[k]]

\* cleanup_history: keep the entries with (now - v) <= max_age
CleanupHistory(h, max_age, t) ==
    LET keep == { k \in DOMAIN h : (t - h[k]) <= max_age }
    IN  [k \in keep |-> h[k]]

\* mutant: a grant that forgets its history write
RecordNothing(h, k, t) == h

\* self.request_history[key] = time.monotonic()
RecordHistory(h, k, t) ==
    IF k = None THEN h
    ELSE [x \in (DOMAIN h) \cup {k} |-> IF x = k THEN t ELSE h[x]]

\* The window_seconds arguments tried: <<w>>, or <<>> for the omitted argument
\* (window_seconds = None).
WindowArgs == {<<>>} \cup { <<w>> : w \in 0..ShortTime }

\* get_request_count(window_seconds):
\*   if not window_seconds: window_seconds = self.config.time_window
\*   count the timestamps with (now - timestamp) <= window_seconds
\* `not window_seconds` is true of None and of 0.
GetRequestCount(h, w, t) ==
    LET window_seconds ==
            IF w = <<>> \/ w[1] = 0 THEN config.time_window ELSE w[1]
    IN  Cardinality({ k \in DOMAIN h : (t - h[k]) <= window_seconds })

\* The max_age arguments tried in direct cleanup_history(max_age) calls.
MaxAges == {0, DefaultMaxAge}

\* mutant: a lock that looks only at its queue, not at whether it is held
LockIgnoresHolder == waiters = <<>>

\* asyncio.Lock.acquire takes the lock at once only if it is free and nobody
\* is queued for it.
LockAvailable == ~locked /\ waiters = <<>>

\* mutant: acquire() without its closed check
AcquireNeverRejects == FALSE

\* `if self._closed: raise RuntimeError` at the top of acquire()
AcquireRejects == closed

\* mutant: __aenter__ without its closed check
EnterNeverRejects == FALSE

\* `if self._closed: raise RuntimeError` at the top of __aenter__
EnterRejects == closed

\* `if not self._closed:` at the top of close()
CloseSkips == closed

EmptyHistory == [k \in {} |-> 0]

\* mutant: a bucket that starts full to the ceiling
InitialTokensWithBurst(c) == (c.max_requests + c.burst_size) * c.time_window

\* self.tokens = float(config.max_requests) in __init__, in token units
InitialTokens(c) == c.max_requests * c.time_window

\* `while self.tokens <= 0:` the caller must wait
NoToken(tok) == tok <= 0

\* s without its i-th element
Remove(s, i) == SubSeq(s, 1, i - 1) \o SubSeq(s, i + 1, Len(s))

\* ---------------------------------------------------------- ProxyConfig --
\* ProxyConfig(): every field at its default.
DefaultProxyArgs ==
    [enabled |-> FALSE, urls |-> <<>>,
     rotation_interval |-> DefaultRotationInterval,
     max_retries |-> DefaultMaxRetries]

\* No ProxyConfig is being constructed (one default call, not made).
NoProxyCall ==
    /\ proxyArgs = DefaultProxyArgs
    /\ proxyCall = "args"
    /\ proxy = <<>>

\* The callers that run as threads, and a thread that is in no call.
Threads == {1, 2}
Idle ==
    [pc |-> "idle", d |-> 0, s |-> FALSE, stats |-> <<>>, seen |-> <<>>,
     acc |-> <<>>, dirty |-> FALSE, err |-> ""]
\* No thread is inside a call of the monitor.
AllIdle == \A t \in Threads : threads[t].pc = "idle"

\* --------------------------------------------------------------- Init ---
\* RateLimiter.__init__ on one of the valid configurations.
LimiterInit ==
    /\ now = 0
    /\ config \in Configs
    /\ tokens = InitialTokens(config)
    /\ last_update = 0
    /\ request_history = EmptyHistory
    /\ closed = FALSE
    /\ locked = FALSE
    /\ waiters = <<>>
    /\ sleepers = <<>>
    /\ lastCall = "none"
    /\ lastGrant = <<>>
    /\ rapidGrants = 0
    /\ tracked = 0

\* PerformanceMonitor.__init__(n)
MonitorInit(n) ==
    /\ wall = 0
    /\ window_size = n
    /\ scrape_times = <<>>
    /\ success_history = <<>>
    /\ start_time = 0
    /\ total_requests = 0
    /\ successful_requests = 0
    /\ last_stats = <<>>
    /\ returned = <<>>
    /\ previous = <<>>
    /\ reported = <<>>
    /\ afterReset = <<>>
    /\ scrapeLog = <<>>
    /\ threads = [t \in Threads |-> Idle]

\* One limiter and one monitor (of the default window size), as constructed.
Init == LimiterInit /\ MonitorInit(DefaultWindowSize) /\ NoProxyCall

\* ------------------------------------------- the body under self.lock ---
\* acquire(k), from holding the lock to the next suspension or the return:
\*   await self._refill_tokens()
\*   while self.tokens <= 0: delay = ...; await asyncio.sleep(delay); refill
\*   self.tokens -= 1; if key is not None: self.request_history[key] = now
\* `others` are the other calls asleep in the section; `slept` tells that this
\* call is returning from asyncio.sleep.
Admission(k, others, slept) ==
    LET refilled == RefillTokens(tokens, last_update, now)
    IN  /\ last_update' = now
        /\ IF NoToken(refilled)
           THEN /\ tokens' = refilled
                /\ locked' = TRUE
                /\ sleepers' = Append(others, [key |-> k, start |-> now])
                /\ UNCHANGED <<request_history, lastCall, lastGrant, rapidGrants>>
           ELSE /\ tokens' = refilled - OneToken
                /\ request_history' = RecordHistory(request_history, k, now)
                /\ locked' = FALSE
                /\ sleepers' = others
                /\ lastCall' = IF slept THEN "granted_slept" ELSE "granted"
                /\ lastGrant' = <<now>>
                /\ rapidGrants' = IF now = 0 THEN rapidGrants + 1 ELSE 0
        /\ UNCHANGED <<now, config, closed>>

\* close(), under the lock: self.cleanup_history(); self._closed = True
\* `queued` tells that this call waited for the lock.
Finalise(queued) ==
    /\ request_history' = CleanupHistory(request_history, DefaultMaxAge, now)
    /\ closed' = TRUE
    /\ locked' = FALSE
    /\ lastCall' = IF closed THEN "closed_again"
               ELSE IF queued /\ lastCall = "granted_slept"
                    THEN "closed_behind_acquire" ELSE "closed_first"
    /\ UNCHANGED <<now, config, tokens, last_update, sleepers, lastGrant,
                   rapidGrants>>

\* `async with self.lock` finds the lock taken: the call joins the queue.
Enqueue(o, k) ==
    /\ Len(waiters) < MaxQueue
    /\ waiters' = Append(waiters, [op |-> o, key |-> k])
    /\ UNCHANGED <<now, config, limiter, locked, sleepers, lastCall, lastGrant,
                   rapidGrants>>

\* ------------------------------------------------------------ actions ---
\* A task calls acquire(k) and runs to its first suspension or its return.
CallAcquire(k) ==
    IF AcquireRejects
    THEN /\ lastCall' = "rejected"
         /\ UNCHANGED <<now, config, limiter, locked, waiters, sleepers,
                        lastGrant, rapidGrants>>
    ELSE IF LockAvailable
    THEN /\ UNCHANGED waiters
         /\ Admission(k, sleepers, FALSE)
    ELSE Enqueue("acquire", k)

\* mutant: close() that finalises without taking self.lock
CallCloseNoLock ==
    IF CloseSkips
    THEN /\ lastCall' = "close_noop"
         /\ UNCHANGED <<now, config, limiter, locked, waiters, sleepers,
                        lastGrant, rapidGrants>>
    ELSE /\ UNCHANGED waiters
         /\ Finalise(FALSE)

\* A task calls close() and runs to its first suspension or its return.
CallClose ==
    IF CloseSkips
    THEN /\ lastCall' = "close_noop"
         /\ UNCHANGED <<now, config, limiter, locked, waiters, sleepers,
                        lastGrant, rapidGrants>>
    ELSE IF LockAvailable
    THEN /\ UNCHANGED waiters
         /\ Finalise(FALSE)
    ELSE Enqueue("close", None)

\* The released lock is handed to the first queued call, which runs on.
LockGranted ==
    /\ ~locked
    /\ waiters # <<>>
    /\ waiters' = Tail(waiters)
    /\ IF Head(waiters).op = "acquire"
       THEN Admission(Head(waiters).key, sleepers, FALSE)
       ELSE Finalise(TRUE)

\* asyncio.sleep(delay) returns; the call refills and re-checks the loop.
WakeUp(i) ==
    /\ DelayElapsed(sleepers[i].start, now)
    /\ UNCHANGED waiters
    /\ Admission(sleepers[i].key, Remove(sleepers, i), TRUE)

\* A task calls cleanup_history(max_age) directly: a plain method, it takes no
\* lock and does not look at _closed.
CallCleanup(m) ==
    /\ request_history' = CleanupHistory(request_history, m, now)
    /\ lastCall' = IF request_history' = request_history
                   THEN "cleanup" ELSE "pruned"
    /\ UNCHANGED <<now, config, tokens, last_update, closed, locked, waiters,
                   sleepers, lastGrant, rapidGrants>>

\* The monotonic clock advances.
Tick(d) ==
    /\ now + d \in Instants
    /\ now' = now + d
    /\ rapidGrants' = 0
    /\ UNCHANGED <<config, limiter, locked, waiters, sleepers, lastCall,
                   lastGrant>>

Next ==
    \/ \E k \in KeyArgs : CallAcquire(k) /\ UNCHANGED notLimiter
    \/ CallClose /\ UNCHANGED notLimiter
    \/ LockGranted /\ UNCHANGED notLimiter
    \/ \E i \in 1..Len(sleepers) : WakeUp(i) /\ UNCHANGED notLimiter
    \/ \E m \in MaxAges : CallCleanup(m) /\ UNCHANGED notLimiter
    \/ \E d \in TickSteps : Tick(d) /\ UNCHANGED notLimiter

Spec == Init /\ [][Next]_vars

\* ------------------------ the limiter with its context manager and count --
\* `async with limiter:` begins: __aenter__ raises on a closed limiter, else
\* returns the limiter.
CallEnter ==
    /\ lastCall' = IF EnterRejects THEN "enter_rejected" ELSE "entered"
    /\ UNCHANGED <<now, config, limiter, locked, waiters, sleepers, lastGrant,
                   rapidGrants>>

\* `async with limiter:` ends: __aexit__ awaits self.close().
CallExit == CallClose

\* A task calls get_request_count(w): a plain method that reads the history,
\* takes no lock and does not look at _closed.
CallCount(w) ==
    /\ GetRequestCount(request_history, w, now) \in 0..Cardinality(Keys)
    /\ lastCall' = "counted"
    /\ UNCHANGED <<now, config, limiter, locked, waiters, sleepers, lastGrant,
                   rapidGrants>>

NextCtx ==
    \/ \E k \in KeyArgs : CallAcquire(k) /\ UNCHANGED notLimiter
    \/ CallClose /\ UNCHANGED notLimiter
    \/ LockGranted /\ UNCHANGED notLimiter
    \/ \E i \in 1..Len(sleepers) : WakeUp(i) /\ UNCHANGED notLimiter
    \/ \E m \in MaxAges : CallCleanup(m) /\ UNCHANGED notLimiter
    \/ \E d \in TickSteps : Tick(d) /\ UNCHANGED notLimiter
    \/ CallEnter /\ UNCHANGED notLimiter
    \/ CallExit /\ UNCHANGED notLimiter
    \/ \E w \in WindowArgs : CallCount(w) /\ UNCHANGED notLimiter

SpecCtx == Init /\ [][NextCtx]_vars

\* ------------------------------------- the limiter with cancelled calls --
\* task.cancel() on a caller that is inside acquire(): CancelledError is
\* raised at the await the task is suspended in.  It is not an Exception, so
\* the `except Exception` of acquire() lets it pass.
\* mutant: a cancelled sleeper that leaves the lock held
CancelSleepingKeepsLock(i) ==
    /\ sleepers' = Remove(sleepers, i)
    /\ lastCall' = "cancelled_sleeping"
    /\ UNCHANGED <<now, config, limiter, locked, waiters, lastGrant,
                   rapidGrants>>

\* The call suspended in asyncio.sleep(delay) is cancelled: the error leaves
\* through `async with self.lock`, whose exit releases the lock; lines 53-57
\* are not run.
CancelSleeping(i) ==
    /\ sleepers' = Remove(sleepers, i)
    /\ locked' = FALSE
    /\ lastCall' = "cancelled_sleeping"
    /\ UNCHANGED <<now, config, limiter, waiters, lastGrant, rapidGrants>>

\* An acquire() call queued for the lock is cancelled: asyncio.Lock.acquire
\* takes it out of the queue (and passes a wake-up on to the next in line).
CancelWaiting(i) ==
    /\ waiters[i].op = "acquire"
    /\ waiters' = Remove(waiters, i)
    /\ lastCall' = "cancelled_waiting"
    /\ UNCHANGED <<now, config, limiter, locked, sleepers, lastGrant,
                   rapidGrants>>

NextCancel ==
    \/ \E k \in KeyArgs : CallAcquire(k) /\ UNCHANGED notLimiter
    \/ CallClose /\ UNCHANGED notLimiter
    \/ LockGranted /\ UNCHANGED notLimiter
    \/ \E i \in 1..Len(sleepers) : WakeUp(i) /\ UNCHANGED notLimiter
    \/ \E m \in MaxAges : CallCleanup(m) /\ UNCHANGED notLimiter
    \/ \E d \in TickSteps : Tick(d) /\ UNCHANGED notLimiter
    \/ \E i \in 1..Len(sleepers) : CancelSleeping(i) /\ UNCHANGED notLimiter
    \/ \E i \in 1..Len(waiters) : CancelWaiting(i) /\ UNCHANGED notLimiter

SpecCancel == Init /\ [][NextCancel]_vars

\* ------------------------------------------ the limiter as time goes on --
\* The code reads the clock only to take differences (now - last_update, the
\* sleep of `delay` seconds), so here every stored instant is kept relative
\* to the present: `now` stays 0 and the passing of a second moves the stored
\* instants into the past.  The age of last_update and of a sleep's start is
\* not followed beyond AgeCap seconds: by then a refill has reached the
\* ceiling from any count above -1 token ((burst_size + 2) * time_window
\* seconds at most, at max_requests = 1) and every delay has elapsed.
AgeCap == (MaxBurst + 2) * MaxWindow

\* last_update, a sleep's start or a grant, d seconds later.
Older(t, d) == Max(t - d, -AgeCap)

\* An entry of request_history is read by cleanup_history(), which close()
\* calls with max_age = 3600: its age is kept exact up to max_age, and an
\* entry older than that, which any cleanup drops, is held at max_age + 1.
OlderEntry(t, d) == Max(t - d, -(DefaultMaxAge + 1))

\* The ages of an entry that are followed: the seconds after the grant, and
\* from max_age on.
EntryAges == (0..AgeCap) \cup {DefaultMaxAge, DefaultMaxAge + 1}

\* d seconds pass: a second, or max_age seconds at once; the clock takes the
\* steps that keep every entry's age among those followed.
TickLive(d) ==
    /\ \A k \in DOMAIN request_history :
         -OlderEntry(request_history[k], d) \in EntryAges
    /\ last_update' = Older(last_update, d)
    /\ sleepers' = [i \in 1..Len(sleepers) |->
                      [sleepers[i] EXCEPT !.start = Older(@, d)]]
    /\ request_history' =
         [k \in DOMAIN request_history |-> OlderEntry(request_history[k], d)]
    /\ lastGrant' = [i \in 1..Len(lastGrant) |-> Older(lastGrant[i], d)]
    /\ rapidGrants' = 0
    /\ UNCHANGED <<now, config, tokens, closed, locked, waiters, lastCall>>

\* How a step moves the followed call: a call that begins to wait (in the
\* queue or asleep) may become the followed one; the followed call moves up
\* the queue as the lock is handed on, sleeps, and is let go when it returns.
Track ==
    LET queuedNew == /\ Len(waiters') = Len(waiters) + 1
                     /\ waiters'[Len(waiters')].op = "acquire"
        handed    == Len(waiters') = Len(waiters) - 1
        sleptNew  == Len(sleepers') = Len(sleepers) + 1 /\ ~handed
    IN  IF tracked = 0
        THEN tracked' \in IF queuedNew THEN {0, Len(waiters')}
                          ELSE IF sleptNew THEN {0, -1}
                          ELSE {0}
        ELSE IF tracked = -1
        THEN tracked' = IF sleepers' = <<>> THEN 0 ELSE -1
        ELSE tracked' = IF ~handed THEN tracked
                        ELSE IF tracked > 1 THEN tracked - 1
                        ELSE IF sleepers' # <<>> THEN -1 ELSE 0

LiveAcquire(k) == CallAcquire(k) /\ UNCHANGED elsewhere /\ Track
LiveClose      == CallClose /\ UNCHANGED elsewhere /\ Track
LiveLockGranted == LockGranted /\ UNCHANGED elsewhere /\ Track
LiveWakeUp(i)  == WakeUp(i) /\ UNCHANGED elsewhere /\ Track
LiveTick       ==
    \E d \in TickSteps : TickLive(d) /\ UNCHANGED elsewhere /\ Track

NextLive ==
    \/ \E k \in KeyArgs : LiveAcquire(k)
    \/ LiveClose
    \/ LiveLockGranted
    \/ \E i \in 1..Len(sleepers) : LiveWakeUp(i)
    \/ LiveTick

\* The clock advances, a sleep whose delay has elapsed returns, and a task
\* that was handed the lock is run.
Fairness ==
    /\ WF_vars(LiveTick)
    /\ WF_vars(\E i \in 1..Len(sleepers) : LiveWakeUp(i))
    /\ WF_vars(LiveLockGranted)

SpecLive == Init /\ [][NextLive]_vars /\ Fairness

\* ------------------------------------- constructing a configuration -----
\* The arguments tried for RateLimiterConfig(...), invalid ones included.
RawConfigs ==
    [max_requests : -1..MaxRequests, time_window : -1..MaxWindow,
     min_delay : {-1} \cup MinDelays, burst_size : -1..MaxBurst]

\* Before construction: the arguments are chosen, no object exists yet (the
\* limiter's fields hold placeholders until RateLimiter.__init__ sets them).
InitCfg ==
    /\ now = 0
    /\ config \in RawConfigs
    /\ tokens = 0
    /\ last_update = 0
    /\ request_history = EmptyHistory
    /\ closed = FALSE
    /\ locked = FALSE
    /\ waiters = <<>>
    /\ sleepers = <<>>
    /\ lastCall = "args"
    /\ lastGrant = <<>>
    /\ rapidGrants = 0
    /\ tracked = 0
    /\ MonitorInit(DefaultWindowSize)
    /\ NoProxyCall

\* RateLimiterConfig(...): the dataclass __init__ runs __post_init__, which
\* raises ValueError or returns.
PostInit ==
    /\ lastCall = "args"
    /\ lastCall' = IF ConfigValid(config) THEN "config" ELSE "ValueError"
    /\ UNCHANGED <<now, config, limiter, locked, waiters, sleepers, lastGrant,
                   rapidGrants>>

\* RateLimiter(config) on a constructed configuration.
NewLimiter ==
    /\ lastCall = "config"
    /\ tokens' = InitialTokens(config)
    /\ last_update' = now
    /\ request_history' = EmptyHistory
    /\ closed' = FALSE
    /\ locked' = FALSE
    /\ waiters' = <<>>
    /\ sleepers' = <<>>
    /\ lastCall' = "none"
    /\ UNCHANGED <<now, config, lastGrant, rapidGrants>>

NextCfg ==
    \/ PostInit /\ UNCHANGED notLimiter
    \/ NewLimiter /\ UNCHANGED notLimiter

SpecCfg == InitCfg /\ [][NextCfg]_vars

\* ============================================== PerformanceMonitor =====
Durations   == 1..MaxDuration
WindowSizes == 0..MaxWindowSize

\* mutant: a list that never evicts
AppendUnbounded(q, x, n) == Append(q, x)

\* deque(maxlen=n).append(x): with n = 0 the element is discarded, at
\* capacity the oldest element leaves first.
DequeAppend(q, x, n) ==
    IF n = 0 THEN q
    ELSE IF Len(q) >= n THEN Append(Tail(q), x)
    ELSE Append(q, x)

RECURSIVE SeqSum(_)
\* sum(q) of a window of numbers
SeqSum(q) == IF q = <<>> THEN 0 ELSE Head(q) + SeqSum(Tail(q))

\* mutant: the oldest retained duration instead of the smallest
SeqMinOldest(q) == Head(q)

RECURSIVE SeqMin(_)
\* min(q), q not empty
SeqMin(q) ==
    IF Len(q) = 1 THEN Head(q) ELSE Min(Head(q), SeqMin(Tail(q)))

RECURSIVE SeqMax(_)
\* max(q), q not empty
SeqMax(q) ==
    IF Len(q) = 1 THEN Head(q) ELSE Max(Head(q), SeqMax(Tail(q)))

RECURSIVE CountTrue(_)
\* sum(q) of a window of booleans: the number of True entries
CountTrue(q) ==
    IF q = <<>> THEN 0
    ELSE (IF Head(q) THEN 1 ELSE 0) + CountTrue(Tail(q))

\* A quotient a / b is kept exact, as the pair <<a, b>>; 0.0 is <<0, 1>>.
Zero == <<0, 1>>
SameQuotient(x, y) == x[1] * y[2] = y[1] * x[2]

\* statistics.mean(q), q not empty
Mean(q) == <<SeqSum(q), Len(q)>>

\* mutant: the rate over the whole session
SuccessRateLifetime(h) == <<successful_requests, total_requests>>

\* sum(self.success_history) / len(self.success_history)
SuccessRate(h) == <<CountTrue(h), Len(h)>>

\* PerformanceStats(): every field at its default; start_time is the
\* default_factory datetime.now, evaluated when the object is built.
DefaultStats(t) ==
    [avg_time |-> Zero, min_time |-> 0, max_time |-> 0, success_rate |-> Zero,
     total_requests |-> 0, successful_requests |-> 0,
     requests_per_minute |-> Zero, start_time |-> t]

\* The snapshot get_stats() builds from a non-empty window at wall time t.
ComputedStats(t) ==
    LET elapsed == t - start_time
    IN  [avg_time |-> Mean(scrape_times),
         min_time |-> SeqMin(scrape_times),
         max_time |-> SeqMax(scrape_times),
         success_rate |-> SuccessRate(success_history),
         total_requests |-> total_requests,
         successful_requests |-> successful_requests,
         requests_per_minute |-> <<total_requests, Max(1, elapsed)>>,
         start_time |-> start_time]

\* One monitor of any window size deque() accepts; the limiter stays as
\* constructed.
InitPM ==
    /\ LimiterInit
    /\ config = CHOOSE c \in Configs : TRUE
    /\ \E n \in WindowSizes : MonitorInit(n)
    /\ NoProxyCall

\* mutant: an add_scrape() that records the flag of successful calls only
AddScrapeSkipsFailureFlag(d, s) ==
    /\ Len(scrapeLog) < MaxScrapes
    /\ scrape_times' = DequeAppend(scrape_times, d, window_size)
    /\ success_history' = IF s THEN DequeAppend(success_history, s, window_size)
                               ELSE success_history
    /\ total_requests' = total_requests + 1
    /\ successful_requests' = successful_requests + (IF s THEN 1 ELSE 0)
    /\ last_stats' = <<>>
    /\ returned' = <<>>
    /\ previous' = <<>>
    /\ reported' = <<>>
    /\ afterReset' = <<>>
    /\ scrapeLog' = Append(scrapeLog, [duration |-> d, success |-> s])
    /\ UNCHANGED <<wall, window_size, start_time>>

\* add_scrape(d, s)
AddScrape(d, s) ==
    /\ Len(scrapeLog) < MaxScrapes
    /\ scrape_times' = DequeAppend(scrape_times, d, window_size)
    /\ success_history' = DequeAppend(success_history, s, window_size)
    /\ total_requests' = total_requests + 1
    /\ successful_requests' = successful_requests + (IF s THEN 1 ELSE 0)
    /\ last_stats' = <<>>
    /\ returned' = <<>>
    /\ previous' = <<>>
    /\ reported' = <<>>
    /\ afterReset' = <<>>
    /\ scrapeLog' = Append(scrapeLog, [duration |-> d, success |-> s])
    /\ UNCHANGED <<wall, window_size, start_time>>

\* The body of get_stats(): the cached snapshot if there is one; for an
\* empty window a new default PerformanceStats(), which is not cached; else a
\* computed snapshot, which is cached.
GetStatsBody ==
    /\ IF last_stats # <<>>
         THEN returned' = last_stats /\ UNCHANGED last_stats
       ELSE IF scrape_times = <<>>
         THEN returned' = <<DefaultStats(wall)>> /\ UNCHANGED last_stats
       ELSE /\ last_stats' = <<ComputedStats(wall)>>
            /\ returned' = last_stats'
    /\ previous' = returned
    /\ UNCHANGED <<wall, window_size, scrape_times, success_history,
                   start_time, total_requests, successful_requests, afterReset,
                   scrapeLog>>

\* get_stats()
GetStats == GetStatsBody /\ UNCHANGED reported

\* ---- float arithmetic behind round() ----
\* The statistics are Python floats (IEEE doubles, 53 significant bits): a
\* quotient a / b is the double nearest to it, and round(x, n) rounds the
\* exact value of that double.  A decimal tie of the exact quotient is thus
\* decided by the side on which the double lies; it goes to the even
\* neighbour only when the double is the quotient itself.

MantissaBits == 52

RECURSIVE Gcd(_, _)
Gcd(a, b) == IF b = 0 THEN a ELSE Gcd(b, a % b)

RECURSIVE Pow2(_)
Pow2(n) == IF n = 0 THEN 1 ELSE 2 * Pow2(n - 1)

RECURSIVE PowMod(_, _)
\* 2^k modulo b
PowMod(k, b) == IF k = 0 THEN 1 % b ELSE (2 * PowMod(k - 1, b)) % b

RECURSIVE Exp2Up(_, _, _)
Exp2Up(a, b, e) == IF a >= 2 * b * Pow2(e) THEN Exp2Up(a, b, e + 1) ELSE e

RECURSIVE Exp2Down(_, _, _)
Exp2Down(a, b, e) == IF a * Pow2(e) < b THEN Exp2Down(a, b, e + 1) ELSE 0 - e

\* The binary exponent of a / b > 0: the e with 2^e <= a / b < 2^(e + 1).
Exp2(a, b) == IF a >= b THEN Exp2Up(a, b, 0) ELSE Exp2Down(a, b, 0)

\* a * 2^k = m * b + r with m the integer nearest to a * 2^k / b (the even
\* one on a tie): the signed remainder r.
SignedRem(a, b, k) ==
    LET r   == ((a % b) * PowMod(k, b)) % b
        odd == ((a % (2 * b)) * PowMod(k, 2 * b)) % (2 * b) >= b
    IN  IF 2 * r < b THEN r
        ELSE IF 2 * r > b THEN r - b
        ELSE IF odd THEN r - b ELSE r

Sign(x) == IF x > 0 THEN 1 ELSE IF x < 0 THEN -1 ELSE 0

\* The sign of float(a / b) - a / b, for a >= 0 and b > 0.
FloatSign(a, b) ==
    IF a = 0 THEN 0
    ELSE LET g == Gcd(a, b)
             x == a \div g
             y == b \div g
         IN  0 - Sign(SignedRem(x, y, MantissaBits - Exp2(x, y)))

\* The sign of float(float(a / b) * 100) - 100 * a / b, for a >= 0, b > 0:
\* the first rounding leaves float(a / b) = a / b - r / (b * 2^k); the product
\* p with 100 is rounded again on the grid of doubles around 100 * a / b
\* = c / d, whose position between two grid points is s / d.
PercentSign(a, b) ==
    IF a = 0 THEN 0
    ELSE LET g     == Gcd(a, b)
             x     == a \div g
             y     == b \div g
             ex    == Exp2(x, y)
             r     == SignedRem(x, y, MantissaBits - ex)
             h     == Gcd(100 * x, y)
             c     == (100 * x) \div h
             d     == y \div h
             eT    == Exp2(c, d)
             power == IF eT < 0 THEN c * Pow2(0 - eT) = d
                               ELSE c = d * Pow2(eT)
             eP    == IF power /\ r > 0 THEN eT - 1 ELSE eT
             K     == MantissaBits - eP
             s     == ((c % d) * PowMod(K, d)) % d
             odd   == ((c % (2 * d)) * PowMod(K, 2 * d)) % (2 * d) >= d
             Hd    == y * Pow2(eP - ex)
             Yn    == s * Hd - 100 * r * d
             Yd    == d * Hd
             fY    == Yn \div Yd
             rest  == 2 * (Yn - fY * Yd)
             R     == IF rest < Yd THEN fY
                      ELSE IF rest > Yd THEN fY + 1
                      ELSE IF (fY % 2 = 1) = odd THEN fY ELSE fY + 1
         IN  Sign(R * d - s)

\* The multiple of 1 / scale nearest to a double lying on the side `side` of
\* the quotient q (-1 below, 1 above, 0 the quotient itself), in units of
\* 1 / scale.
RoundSide(q, scale, side) ==
    LET n    == q[1] * scale
        d    == q[2]
        down == n \div d
        rest == 2 * (n - down * d)
    IN  IF rest < d THEN down
        ELSE IF rest > d THEN down + 1
        ELSE IF side < 0 THEN down
        ELSE IF side > 0 THEN down + 1
        ELSE IF down % 2 = 0 THEN down ELSE down + 1

\* round(a / b, n) with scale = 10^n, in units of 1 / scale.
RoundTo(q, scale) == RoundSide(q, scale, FloatSign(q[1], q[2]))

\* round(a / b * 100, 1), in tenths of a percent.
RoundPercent(q) == RoundSide(q, 1000, PercentSign(q[1], q[2]))

\* The mapping get_stats_dict() builds from the snapshot st at wall time t:
\* durations and requests_per_minute in hundredths, success_rate in tenths
\* of a percent, uptime_minutes in tenths of a minute.
StatsDict(st, t) ==
    [avg_time |-> RoundTo(st.avg_time, 100),
     min_time |-> RoundTo(<<st.min_time, 1>>, 100),
     max_time |-> RoundTo(<<st.max_time, 1>>, 100),
     success_rate |-> RoundPercent(st.success_rate),
     total_requests |-> st.total_requests,
     successful_requests |-> st.successful_requests,
     requests_per_minute |-> RoundTo(st.requests_per_minute, 100),
     uptime_minutes |-> RoundTo(<<t - st.start_time, 1>>, 10)]

\* get_stats_dict(): stats = self.get_stats(), then the rounded mapping.
GetStatsDict ==
    /\ GetStatsBody
    /\ reported' = <<[dict |-> StatsDict(returned'[1], wall), at |-> wall]>>

\* mutant: a reset() that leaves the cached snapshot in place
ResetKeepsCache ==
    /\ scrape_times' = <<>>
    /\ success_history' = <<>>
    /\ start_time' = wall
    /\ total_requests' = 0
    /\ successful_requests' = 0
    /\ returned' = <<>>
    /\ previous' = <<>>
    /\ reported' = <<>>
    /\ afterReset' = <<[cached |-> last_stats # <<>>, at |-> wall]>>
    /\ scrapeLog' = <<>>
    /\ UNCHANGED <<wall, window_size, last_stats>>

\* reset()
Reset ==
    /\ scrape_times' = <<>>
    /\ success_history' = <<>>
    /\ start_time' = wall
    /\ total_requests' = 0
    /\ successful_requests' = 0
    /\ last_stats' = <<>>
    /\ returned' = <<>>
    /\ previous' = <<>>
    /\ reported' = <<>>
    /\ afterReset' = <<[cached |-> last_stats # <<>>, at |-> wall]>>
    /\ scrapeLog' = <<>>
    /\ UNCHANGED <<wall, window_size>>

\* A minute of wall-clock time passes.
WallTick ==
    /\ wall < MaxMinutes
    /\ wall' = wall + 1
    /\ UNCHANGED <<window_size, scrape_times, success_history, start_time,
                   total_requests, successful_requests, last_stats, returned,
                   previous, reported, afterReset, scrapeLog>>

NextPM ==
    \/ \E d \in Durations, s \in BOOLEAN : AddScrape(d, s) /\ UNCHANGED notMonitor
    \/ GetStats /\ UNCHANGED notMonitor
    \/ GetStatsDict /\ UNCHANGED notMonitor
    \/ Reset /\ UNCHANGED notMonitor
    \/ WallTick /\ UNCHANGED notMonitor

SpecPM == InitPM /\ [][NextPM]_vars

\* ------------------------------- the monitor called from several threads --
\* The methods take no lock, so between two statements of one thread another
\* thread may run.  Each action below is one statement of one thread (the
\* augmented assignments of lines 37 and 39 are taken as one step each).
\* The add_scrape calls the threads make between them.
MaxThreadScrapes == 2

\* The durations tried by the threads.
ThreadDurations == {1, MaxDuration}

InitPMT ==
    /\ LimiterInit
    /\ config = CHOOSE c \in Configs : TRUE
    /\ \E n \in WindowSizes : MonitorInit(n)
    /\ NoProxyCall

\* Thread t moves to position p with its locals changed as in `with`.
Goto(t, p, with) ==
    threads' = [threads EXCEPT ![t] = [with EXCEPT !.pc = p]]

monitorGhosts == <<returned, previous, reported, afterReset>>

\* The append of another thread reaches a thread that is iterating over
\* scrape_times inside statistics.mean: the deque's iterator will find the
\* deque changed.
Mutated(u) ==
    IF threads[u].pc = "mean" THEN [threads[u] EXCEPT !.dirty = TRUE]
    ELSE threads[u]

\* add_scrape(d, s), line 35: self.scrape_times.append(duration)
TAppendDuration(t, d, s) ==
    /\ threads[t].pc = "idle"
    /\ Len(scrapeLog) < MaxThreadScrapes
    /\ scrape_times' = DequeAppend(scrape_times, d, window_size)
    /\ scrapeLog' = Append(scrapeLog, [duration |-> d, success |-> s])
    /\ threads' = [u \in Threads |->
                      IF u = t THEN [Idle EXCEPT !.pc = "line36", !.d = d, !.s = s]
                      ELSE Mutated(u)]
    /\ UNCHANGED <<wall, window_size, success_history, start_time,
                   total_requests, successful_requests, last_stats,
                   monitorGhosts>>

\* line 36: self.success_history.append(success)
TAppendSuccess(t) ==
    /\ threads[t].pc = "line36"
    /\ success_history' = DequeAppend(success_history, threads[t].s, window_size)
    /\ Goto(t, "line37", threads[t])
    /\ UNCHANGED <<wall, window_size, scrape_times, start_time, total_requests,
                   successful_requests, last_stats, monitorGhosts, scrapeLog>>

\* line 37: self.total_requests += 1
TCountRequest(t) ==
    /\ threads[t].pc = "line37"
    /\ total_requests' = total_requests + 1
    /\ Goto(t, "line38", threads[t])
    /\ UNCHANGED <<wall, window_size, scrape_times, success_history, start_time,
                   successful_requests, last_stats, monitorGhosts, scrapeLog>>

\* lines 38-39: if success: self.successful_requests += 1
TCountSuccess(t) ==
    /\ threads[t].pc = "line38"
    /\ successful_requests' =
         successful_requests + (IF threads[t].s THEN 1 ELSE 0)
    /\ Goto(t, "line40", threads[t])
    /\ UNCHANGED <<wall, window_size, scrape_times, success_history, start_time,
                   total_requests, last_stats, monitorGhosts, scrapeLog>>

\* line 40: self._last_stats = None, and add_scrape returns
TInvalidate(t) ==
    /\ threads[t].pc = "line40"
    /\ last_stats' = <<>>
    /\ Goto(t, "idle", Idle)
    /\ UNCHANGED <<wall, window_size, scrape_times, success_history, start_time,
                   total_requests, successful_requests, monitorGhosts,
                   scrapeLog>>

\* get_stats(), lines 44-47: the cached snapshot is returned; for an empty
\* window the thread goes on to build a default snapshot; else it goes on to
\* compute.
TCheckCache(t) ==
    /\ threads[t].pc = "idle"
    /\ IF last_stats # <<>>
         THEN Goto(t, "idle", [Idle EXCEPT !.stats = last_stats])
       ELSE IF scrape_times = <<>>
         THEN Goto(t, "line48", Idle)
       ELSE Goto(t, "line50", Idle)
    /\ UNCHANGED pmVars

\* line 48: PerformanceStats() is entered, its default_factory reads the
\* clock, and the default snapshot is returned.
TDefault(t) ==
    /\ threads[t].pc = "line48"
    /\ Goto(t, "idle", [Idle EXCEPT !.stats = <<DefaultStats(wall)>>])
    /\ UNCHANGED pmVars

\* Lines 50-60 are a sequence of calls, and another thread may run between
\* any two of them; `acc` collects what the thread has read so far.

\* line 50: elapsed = (datetime.now() - self.start_time).total_seconds() / 60
TElapsed(t) ==
    /\ threads[t].pc = "line50"
    /\ Goto(t, "line52", [threads[t] EXCEPT !.acc = <<wall - start_time>>])
    /\ UNCHANGED pmVars

\* line 52, statistics.mean(self.scrape_times) is entered: _sum() opens an
\* iterator over the deque.
TMeanBegin(t) ==
    /\ threads[t].pc = "line52"
    /\ Goto(t, "mean", [threads[t] EXCEPT !.dirty = FALSE])
    /\ UNCHANGED pmVars

\* line 52, the iteration ends: RuntimeError (deque mutated during iteration)
\* when another thread appended meanwhile, else the mean of the window; the
\* number of durations counted is the first component of `seen`.
TMeanEnd(t) ==
    /\ threads[t].pc = "mean"
    /\ IF threads[t].dirty
         THEN Goto(t, "idle", [Idle EXCEPT !.err = "RuntimeError"])
         ELSE Goto(t, "line53",
                   [threads[t] EXCEPT !.acc = Append(@, Mean(scrape_times)),
                                      !.seen = <<Len(scrape_times)>>])
    /\ UNCHANGED pmVars

\* line 53: min(self.scrape_times)
TMin(t) ==
    /\ threads[t].pc = "line53"
    /\ Goto(t, "line54", [threads[t] EXCEPT !.acc = Append(@, SeqMin(scrape_times))])
    /\ UNCHANGED pmVars

\* line 54: max(self.scrape_times)
TMax(t) ==
    /\ threads[t].pc = "line54"
    /\ Goto(t, "line55", [threads[t] EXCEPT !.acc = Append(@, SeqMax(scrape_times))])
    /\ UNCHANGED pmVars

\* line 55: sum(self.success_history)
TSum(t) ==
    /\ threads[t].pc = "line55"
    /\ Goto(t, "line55len",
            [threads[t] EXCEPT !.acc = Append(@, CountTrue(success_history))])
    /\ UNCHANGED pmVars

\* line 55: len(self.success_history) and the quotient, which raises
\* ZeroDivisionError for an empty success window; the length read is the
\* second component of `seen`.
TRate(t) ==
    /\ threads[t].pc = "line55len"
    /\ LET seen == Append(threads[t].seen, Len(success_history))
       IN  IF success_history = <<>>
           THEN Goto(t, "idle", [Idle EXCEPT !.seen = seen,
                                             !.err = "ZeroDivisionError"])
           ELSE Goto(t, "line56",
                     [threads[t] EXCEPT
                        !.seen = seen,
                        !.acc = Append(SubSeq(@, 1, Len(@) - 1),
                                       <<@[Len(@)], Len(success_history)>>)])
    /\ UNCHANGED pmVars

\* lines 56-58: self.total_requests, self.successful_requests and
\* self.total_requests again are read with no call in between.
TReadCounters(t) ==
    /\ threads[t].pc = "line56"
    /\ Goto(t, "line58",
            [threads[t] EXCEPT
               !.acc = @ \o <<total_requests, successful_requests>>])
    /\ UNCHANGED pmVars

\* lines 58-60: after max(1, elapsed), self.start_time is read and the
\* PerformanceStats is built from what was read.
TBuild(t) ==
    /\ threads[t].pc = "line58"
    /\ LET a == threads[t].acc
       IN  Goto(t, "line61",
                [threads[t] EXCEPT
                   !.acc = <<>>,
                   !.stats = <<[avg_time |-> a[2], min_time |-> a[3],
                                max_time |-> a[4], success_rate |-> a[5],
                                total_requests |-> a[6],
                                successful_requests |-> a[7],
                                requests_per_minute |-> <<a[6], Max(1, a[1])>>,
                                start_time |-> start_time]>>])
    /\ UNCHANGED pmVars

\* lines 61-62: self._last_stats = stats; return stats
TStoreCache(t) ==
    /\ threads[t].pc = "line61"
    /\ last_stats' = threads[t].stats
    /\ Goto(t, "idle", [threads[t] EXCEPT !.pc = "idle"])
    /\ UNCHANGED <<wall, window_size, scrape_times, success_history, start_time,
                   total_requests, successful_requests, monitorGhosts,
                   scrapeLog>>

NextPMT ==
    \/ \E t \in Threads, d \in ThreadDurations, s \in BOOLEAN :
         TAppendDuration(t, d, s) /\ UNCHANGED notThreads
    \/ \E t \in Threads : TAppendSuccess(t) /\ UNCHANGED notThreads
    \/ \E t \in Threads : TCountRequest(t) /\ UNCHANGED notThreads
    \/ \E t \in Threads : TCountSuccess(t) /\ UNCHANGED notThreads
    \/ \E t \in Threads : TInvalidate(t) /\ UNCHANGED notThreads
    \/ \E t \in Threads : TCheckCache(t) /\ UNCHANGED notThreads
    \/ \E t \in Threads : TDefault(t) /\ UNCHANGED notThreads
    \/ \E t \in Threads : TElapsed(t) /\ UNCHANGED notThreads
    \/ \E t \in Threads : TMeanBegin(t) /\ UNCHANGED notThreads
    \/ \E t \in Threads : TMeanEnd(t) /\ UNCHANGED notThreads
    \/ \E t \in Threads : TMin(t) /\ UNCHANGED notThreads
    \/ \E t \in Threads : TMax(t) /\ UNCHANGED notThreads
    \/ \E t \in Threads : TSum(t) /\ UNCHANGED notThreads
    \/ \E t \in Threads : TRate(t) /\ UNCHANGED notThreads
    \/ \E t \in Threads : TReadCounters(t) /\ UNCHANGED notThreads
    \/ \E t \in Threads : TBuild(t) /\ UNCHANGED notThreads
    \/ \E t \in Threads : TStoreCache(t) /\ UNCHANGED notThreads
    \/ WallTick /\ UNCHANGED notMonitor

SpecPMT == InitPMT /\ [][NextPMT]_vars

\* ----------------------------------------- constructing a ProxyConfig ---
\* A URL is the sequence of its characters, over an alphabet with a letter, a
\* digit and the two delimiters that urlparse looks for in it.
UrlChars == {"a", "1", ":", "/"}
Letters == {"a"}
SchemeChars == {"a", "1"}

\* All strings of exactly n characters, and of at most n.
RECURSIVE StringsOfLen(_)
StringsOfLen(n) ==
    IF n = 0 THEN {<<>>}
    ELSE { Append(u, c) : u \in StringsOfLen(n - 1), c \in UrlChars }
Urls == UNION { StringsOfLen(n) : n \in 0..MaxUrlLen }

\* url.find(x) from position `from` on: the index of the first x, 0 if none.
Find(u, x, from) ==
    LET hits == { i \in from..Len(u) : u[i] \in x }
    IN  IF hits = {} THEN 0 ELSE CHOOSE i \in hits : \A j \in hits : i <= j

\* urlsplit: the text before the first ":" is the scheme if it is not empty,
\* starts with a letter and holds scheme characters only.
HasScheme(u) ==
    LET i == Find(u, {":"}, 1)
    IN  /\ i > 1
        /\ u[1] \in Letters
        /\ \A j \in 1..(i - 1) : u[j] \in SchemeChars

\* urlparse(url).scheme
Scheme(u) ==
    IF HasScheme(u) THEN SubSeq(u, 1, Find(u, {":"}, 1) - 1) ELSE <<>>

\* urlparse(url).netloc: after the scheme (if any), when the rest starts with
\* "//", the text up to the next "/".
Netloc(u) ==
    LET rest == IF HasScheme(u)
                THEN SubSeq(u, Find(u, {":"}, 1) + 1, Len(u)) ELSE u
        stop == Find(rest, {"/"}, 3)
    IN  IF Len(rest) >= 2 /\ rest[1] = "/" /\ rest[2] = "/"
        THEN SubSeq(rest, 3, IF stop = 0 THEN Len(rest) ELSE stop - 1)
        ELSE <<>>

\* _validate_url: all([result.scheme, result.netloc])
UrlValid(u) == Scheme(u) # <<>> /\ Netloc(u) # <<>>

\* ProxyConfig.__post_init__: the four checks, in order.
ProxyValid(p) ==
    /\ ~(p.enabled /\ p.urls = <<>>)
    /\ ~(p.rotation_interval <= 0)
    /\ ~(p.max_retries <= 0)
    /\ \A i \in 1..Len(p.urls) : UrlValid(p.urls[i])

\* The URL lists tried: none, any one URL, and any URL before or after one
\* well-formed and one malformed URL.
GoodUrl == <<"a", ":", "/", "/", "a">>
BadUrl  == <<"a">>
UrlLists ==
    {<<>>} \cup { <<u>> : u \in Urls }
           \cup { <<u, v>> : u \in Urls, v \in {GoodUrl, BadUrl} }
           \cup { <<v, u>> : u \in Urls, v \in {GoodUrl, BadUrl} }

ProxyArgs ==
    [enabled : BOOLEAN, urls : UrlLists,
     rotation_interval : {-1, 0, 1, DefaultRotationInterval},
     max_retries : {-1, 0, 1, DefaultMaxRetries}]

\* Before a ProxyConfig(...) call with any of the arguments; the limiter and
\* the monitor stay as constructed.
InitPx ==
    /\ LimiterInit
    /\ config = CHOOSE c \in Configs : TRUE
    /\ MonitorInit(DefaultWindowSize)
    /\ proxyArgs \in ProxyArgs
    /\ proxyCall = "args"
    /\ proxy = <<>>

\* src/config.py as a whole: in class ScrapingConfig the decorator
\* @classmethod of line 165 is followed by a `def from_yaml` at column 0 (line
\* 166), so compiling the file raises IndentationError.
ConfigModuleCompiles == FALSE

\* `from src.config import ProxyConfig`: the file is compiled before any of
\* it runs.
ImportConfig ==
    /\ proxyCall = "args"
    /\ proxyCall' = IF ConfigModuleCompiles THEN "imported"
                    ELSE "IndentationError"
    /\ UNCHANGED <<proxyArgs, proxy>>

\* ProxyConfig(...) raises: the dataclass __init__ sets the fields and
\* __post_init__ raises ValueError; the caller gets no object.
ProxyRejected ==
    /\ proxyCall = "imported"
    /\ ~ProxyValid(proxyArgs)
    /\ proxyCall' = "ValueError"
    /\ UNCHANGED <<proxyArgs, proxy>>

\* ProxyConfig(...) returns the object, its fields as given.
ProxyBuilt ==
    /\ proxyCall = "imported"
    /\ ProxyValid(proxyArgs)
    /\ proxyCall' = "built"
    /\ proxy' = <<proxyArgs>>
    /\ UNCHANGED proxyArgs

\* The program: the import is all that can happen, the class is never
\* reached.
NextPx ==
    \/ ImportConfig /\ UNCHANGED notProxy

SpecPx == InitPx /\ [][NextPx]_vars

\* The class ProxyConfig by itself (lines 1-64 of the file, which do compile).
InitPxClass ==
    /\ LimiterInit
    /\ config = CHOOSE c \in Configs : TRUE
    /\ MonitorInit(DefaultWindowSize)
    /\ proxyArgs \in ProxyArgs
    /\ proxyCall = "imported"
    /\ proxy = <<>>

NextPxClass ==
    \/ ProxyRejected /\ UNCHANGED notProxy
    \/ ProxyBuilt /\ UNCHANGED notProxy

SpecPxClass == InitPxClass /\ [][NextPxClass]_vars

TypeOK ==
    /\ now \in Instants
    /\ config \in Configs
    /\ tokens \in -config.time_window..Ceiling
    /\ last_update \in 0..now
    /\ DOMAIN request_history \subseteq Keys
    /\ closed \in BOOLEAN
    /\ locked \in BOOLEAN
    /\ Len(waiters) <= MaxQueue
    /\ wall \in 0..MaxMinutes
    /\ window_size \in WindowSizes \cup {DefaultWindowSize}
    /\ AllIdle => Len(scrape_times) = Len(success_history)
    /\ DOMAIN threads = Threads
    /\ proxyCall \in {"args", "IndentationError", "imported", "ValueError",
                     "built"}
    /\ Len(proxy) <= 1
    /\ start_time \in 0..wall
    /\ successful_requests \in 0..total_requests
    /\ Len(last_stats) <= 1
    /\ Len(returned) <= 1
    /\ Len(previous) <= Len(returned)
    /\ Len(reported) <= Len(returned)
    /\ Len(afterReset) <= 1

\* ------------------------------------------------- steps, for the claims --
\* An acquire() call takes the lock in this step (at once, or from the queue).
AcquireEnters ==
    \/ \E k \in KeyArgs : ~AcquireRejects /\ LockAvailable /\ CallAcquire(k)
    \/ waiters # <<>> /\ Head(waiters).op = "acquire" /\ LockGranted

\* An acquire() call is granted in this step: it decrements the token count
\* (and writes the history entry of its key).
GrantStep ==
    /\ ~NoToken(RefillTokens(tokens, last_update, now))
    /\ \/ AcquireEnters
       \/ \E i \in 1..Len(sleepers) : WakeUp(i)

\* A close() call runs its `async with self.lock` body in this step.
FinaliseStep ==
    \/ ~CloseSkips /\ LockAvailable /\ CallClose
    \/ waiters # <<>> /\ Head(waiters).op = "close" /\ LockGranted

\* Some close() call runs in this step (up to its suspension or its return).
CloseStep ==
    \/ CallClose
    \/ waiters # <<>> /\ Head(waiters).op = "close" /\ LockGranted

\* ------------------------------------------------------------- claims ----

\* C1 (as stated): on a fresh limiter the first max_requests + burst_size
\* acquire() calls made with no elapsed time do not suspend, the next one
\* does, and it stays suspended for at least min_delay.
C1_RapidCallsUpToBurst ==
    [][ /\ (now = 0 /\ AcquireEnters) =>
             ((sleepers' # <<>>) <=>
                 (rapidGrants = config.max_requests + config.burst_size))
        /\ \A i \in 1..Len(sleepers) :
             (sleepers[i].start = 0 /\ WakeUp(i)) =>
                 now - sleepers[i].start >= config.min_delay ]_vars

\* C1 (amended): on a fresh limiter the first max_requests acquire() calls
\* made with no elapsed time do not suspend, the next one does, and it stays
\* suspended for at least min_delay.
C1_RapidCallsUpToMaxRequests ==
    [][ /\ (now = 0 /\ AcquireEnters) =>
             ((sleepers' # <<>>) <=> (rapidGrants = config.max_requests))
        /\ \A i \in 1..Len(sleepers) :
             (sleepers[i].start = 0 /\ WakeUp(i)) =>
                 now - sleepers[i].start >= config.min_delay ]_vars

\* C1 witness: with a burst allowance and a min_delay configured, max_requests
\* calls were granted at the construction instant and the next one is asleep.
C1_Witness ==
    /\ now = 0
    /\ config.burst_size > 0
    /\ config.min_delay > 0
    /\ rapidGrants = config.max_requests
    /\ sleepers # <<>>

\* C2 (as stated): the grants inside any interval of length T number at most
\* max_requests + burst_size + T * max_requests / time_window; stated for the
\* interval from the previous grant to the one being made, which holds two.
C2_GrantsWithinRatePlusBurst ==
    [][ (GrantStep /\ lastGrant # <<>>) =>
          2 * config.time_window <=
              (config.max_requests + config.burst_size) * config.time_window
              + (now - lastGrant[1]) * config.max_requests ]_vars

\* C3 (as stated): any two consecutive grants are at least min_delay apart.
C3_EveryGrantSpaced ==
    [][ (GrantStep /\ lastGrant # <<>>) =>
          now - lastGrant[1] >= config.min_delay ]_vars

\* C3 (amended): a grant to a caller that found no token and slept comes at
\* least min_delay after the previous grant; min_delay floors that sleep only.
C3_GrantAfterSleepSpaced ==
    [][ \A i \in 1..Len(sleepers) :
          (WakeUp(i) /\ ~NoToken(RefillTokens(tokens, last_update, now))
             /\ lastGrant # <<>>) =>
              now - lastGrant[1] >= config.min_delay ]_vars

\* C3 witness: under a configured min_delay a caller that slept was granted
\* within the first seconds, after an earlier grant.
C3_Witness ==
    /\ config.min_delay > 0
    /\ lastCall = "granted_slept"
    /\ lastGrant = <<now>>
    /\ now <= ShortTime

\* C4 (as stated): the token count is never below zero.
C4_TokensNonNegative == tokens >= 0

\* C5: the token count never exceeds max_requests + burst_size.
C5_TokensAtMostCeiling == tokens <= Ceiling

\* C5 witness: after an idle period of max-age length a refill was clamped at
\* the ceiling (above max_requests) and one token was granted from it.
C5_Witness ==
    /\ config.burst_size > 0
    /\ now >= DefaultMaxAge
    /\ last_update = now
    /\ lastGrant = <<now>>
    /\ tokens = Ceiling - OneToken

\* C6: at most one acquire() call is inside the critical section: never two
\* calls asleep in the wait loop, and no call enters the section (to refill,
\* check and decrement) while another is asleep in it.
C6_MutualExclusion ==
    [][ /\ Len(sleepers') <= 1
        /\ AcquireEnters => sleepers = <<>> ]_vars

\* C6 witness: one call is asleep in the section while another acquire() is
\* queued for the lock.
C6_Witness ==
    /\ Len(sleepers) = 1
    /\ locked
    /\ \E i \in 1..Len(waiters) : waiters[i].op = "acquire"

\* C7 (as stated): no grant (token decrement, history write) is made once the
\* limiter is closed.
C7_NoGrantOnceClosed == [][ GrantStep => ~closed ]_vars

\* C8: an acquire() invoked on a closed limiter fails with the closed error
\* and changes nothing: no refill, no decrement, no history write, no queueing.
C8_AcquireAfterCloseFails ==
    [][ \A k \in KeyArgs :
          (closed /\ CallAcquire(k)) =>
              /\ lastCall' = "rejected"
              /\ UNCHANGED <<tokens, last_update, request_history, closed,
                             locked, waiters, sleepers>> ]_vars

\* C8 witness: the limiter is closed and the latest call, an acquire(), was
\* rejected.
C8_Witness == closed /\ lastCall = "rejected"

\* C9: closed turns true only in a step in which close() holds the lock: the
\* lock was free for it and no acquire() is inside the critical section.
C9_CloseFinalisesUnderLock ==
    [][ (~closed /\ closed') =>
          /\ FinaliseStep
          /\ ~locked
          /\ sleepers = <<>>
          /\ sleepers' = <<>> ]_vars

\* C9 witness: a close() that queued behind an acquire() asleep in the section
\* finalised right after that acquire() was granted.
C9_Witness == closed /\ lastCall = "closed_behind_acquire"

\* C10 (as stated): the first close() prunes with the default max age and sets
\* closed; every later close() changes neither closed, tokens nor the history.
C10_CloseIdempotent ==
    [][ /\ (~closed /\ FinaliseStep) =>
             /\ closed'
             /\ request_history' =
                  CleanupHistory(request_history, DefaultMaxAge, now)
        /\ (closed /\ CloseStep) =>
             UNCHANGED <<closed, tokens, request_history>> ]_vars
\* A step of a task that holds the lock: an acquire() inside the critical
\* section, or a close() inside its `async with self.lock`.
LockHolderStep ==
    \/ AcquireEnters
    \/ \E i \in 1..Len(sleepers) : WakeUp(i)
    \/ FinaliseStep

\* C11 (as stated): every change to the token count, the last-refill instant
\* or the history map is made by a task that holds the lock.
C11_MutationsUnderLock ==
    [][ (<<tokens, last_update, request_history>>' #
            <<tokens, last_update, request_history>>) => LockHolderStep ]_vars

\* The acquire(k) call with key argument k is granted in this step.
GrantStepOf(k) ==
    /\ ~NoToken(RefillTokens(tokens, last_update, now))
    /\ \/ ~AcquireRejects /\ LockAvailable /\ CallAcquire(k)
       \/ /\ waiters # <<>>
          /\ Head(waiters).op = "acquire"
          /\ Head(waiters).key = k
          /\ LockGranted
       \/ \E i \in 1..Len(sleepers) : sleepers[i].key = k /\ WakeUp(i)

\* C12: the step that decrements the token count (by exactly one token, from
\* the refilled count) also writes the instant of the grant under the call's
\* key, leaving the other entries alone; a call without a key leaves the
\* history map unchanged.  No state lies between the two writes.
C12_DecrementAndHistoryTogether ==
    [][ \A k \in KeyArgs :
          GrantStepOf(k) =>
            /\ tokens' = RefillTokens(tokens, last_update, now) - OneToken
            /\ k = None => request_history' = request_history
            /\ k # None =>
                 /\ DOMAIN request_history' = DOMAIN request_history \cup {k}
                 /\ request_history'[k] = now
                 /\ \A x \in DOMAIN request_history \ {k} :
                      request_history'[x] = request_history[x] ]_vars

\* C12 witness: a grant was just made and the history holds its instant.
C12_Witness ==
    /\ lastCall \in {"granted", "granted_slept"}
    /\ lastGrant = <<now>>
    /\ last_update = now
    /\ "a" \in DOMAIN request_history
    /\ request_history["a"] = now
    /\ now > 0

\* No operation has been called on the limiter since its construction.
Fresh == lastCall = "none" /\ waiters = <<>> /\ sleepers = <<>>

\* C13: a freshly constructed limiter has tokens = max_requests (not
\* max_requests + burst_size), an empty history map and closed = FALSE.
C13_FreshLimiter ==
    Fresh =>
      /\ tokens = config.max_requests * config.time_window
      /\ request_history = EmptyHistory
      /\ closed = FALSE

\* C13 witness: a fresh limiter whose configuration has a burst allowance.
C13_Witness == Fresh /\ config.burst_size > 0 /\ tokens < Ceiling

\* C15: after cleanup_history(max_age) the history map holds exactly the
\* entries it held before whose age is at most max_age, each with its instant
\* unchanged; tokens, the last-refill instant and closed are unchanged.
C15_CleanupKeepsExactlyTheYoung ==
    [][ \A m \in MaxAges :
          CallCleanup(m) =>
            /\ DOMAIN request_history' =
                 { k \in DOMAIN request_history :
                     now - request_history[k] <= m }
            /\ \A k \in DOMAIN request_history' :
                 request_history'[k] = request_history[k]
            /\ UNCHANGED <<tokens, last_update, closed>> ]_vars

\* C15 witness: a direct cleanup_history call has just dropped an entry, within
\* the first seconds (so not with the default max age).
C15_Witness == lastCall = "pruned" /\ now <= ShortTime

\* C16 (as stated): get_request_count(w) counts the entries within w seconds
\* of now for every supplied w >= 0, and within time_window only when no
\* window is supplied.
C16_CountWithinSuppliedWindow ==
    \A w \in WindowArgs :
        GetRequestCount(request_history, w, now) =
            Cardinality({ k \in DOMAIN request_history :
                now - request_history[k] <=
                    (IF w = <<>> THEN config.time_window ELSE w[1]) })

\* C14: constructing a RateLimiterConfig fails exactly when max_requests <= 0,
\* time_window <= 0, min_delay < 0 or burst_size < 0; a configuration object,
\* and so a limiter, exists only for the other arguments.
C14_ConfigRejectedExactlyWhenInvalid ==
    lastCall # "args" =>
      /\ lastCall \in {"ValueError", "config", "none"}
      /\ (lastCall = "ValueError") <=>
           \/ config.max_requests <= 0
           \/ config.time_window <= 0
           \/ config.min_delay < 0
           \/ config.burst_size < 0

\* C14 witness: a limiter was constructed from arguments with min_delay = 0
\* and burst_size = 0.
C14_Witness ==
    /\ lastCall = "none"
    /\ config.min_delay = 0
    /\ config.burst_size = 0
    /\ tokens = config.max_requests * config.time_window

\* The calls whose samples a window of size window_size retains: the last
\* min(n, N) of the n add_scrape calls since construction or the last reset.
Retained ==
    LET n == Len(scrapeLog)
        m == Min(n, window_size)
    IN  [i \in 1..m |-> scrapeLog[n - m + i]]

\* C17: after n add_scrape calls since construction or the last reset, on a
\* window of size N, the duration window holds exactly the last min(n, N)
\* durations in call order, the success window the flags of the same calls,
\* total_requests = n, and successful_requests counts the successful ones
\* among all n calls.
C17_WindowsHoldLatestCountersHoldAll ==
    /\ scrape_times = [i \in 1..Len(Retained) |-> Retained[i].duration]
    /\ success_history = [i \in 1..Len(Retained) |-> Retained[i].success]
    /\ total_requests = Len(scrapeLog)
    /\ successful_requests =
         Cardinality({ i \in 1..Len(scrapeLog) : scrapeLog[i].success })

\* C17 witness: a successful sample was evicted from a window that still
\* retains later samples.
C17_Witness ==
    /\ window_size > 0
    /\ Len(scrapeLog) > window_size
    /\ scrapeLog[1].success
    /\ successful_requests > CountTrue(success_history)

\* C18: for a non-empty window, get_stats() returns as avg_time, min_time and
\* max_time the mean, the minimum and the maximum of exactly the durations
\* retained in the window.
C18_StatsOverRetainedDurations ==
    (returned # <<>> /\ Len(Retained) > 0) =>
      LET d(i) == Retained[i].duration
          I    == 1..Len(Retained)
          r    == returned[1]
      IN  /\ SameQuotient(r.avg_time, <<SeqSum([i \in I |-> d(i)]), Len(Retained)>>)
          /\ \E i \in I : r.min_time = d(i)
          /\ \A i \in I : r.min_time <= d(i)
          /\ \E i \in I : r.max_time = d(i)
          /\ \A i \in I : r.max_time >= d(i)

\* C18 witness: after samples 1, 3, 2 get_stats() returned avg 2, min 1,
\* max 3.
C18_Witness ==
    /\ returned # <<>>
    /\ scrape_times = <<1, 3, 2>>
    /\ SameQuotient(returned[1].avg_time, <<2, 1>>)
    /\ returned[1].min_time = 1
    /\ returned[1].max_time = 3

\* C19: for a non-empty window, get_stats() returns as success_rate the
\* number of successful retained samples over the number of retained
\* samples, and as total_requests and successful_requests the lifetime
\* counts.
C19_RateOverWindowCountsOverLifetime ==
    (returned # <<>> /\ Len(Retained) > 0) =>
      LET I == 1..Len(Retained)
          r == returned[1]
      IN  /\ SameQuotient(r.success_rate,
               <<Cardinality({ i \in I : Retained[i].success }), Len(Retained)>>)
          /\ r.total_requests = Len(scrapeLog)
          /\ r.successful_requests =
               Cardinality({ i \in 1..Len(scrapeLog) : scrapeLog[i].success })

\* C19 witness: more samples than the window holds were recorded and the
\* returned success_rate differs from successful_requests / total_requests.
C19_Witness ==
    /\ returned # <<>>
    /\ Len(scrapeLog) > window_size
    /\ scrape_times # <<>>
    /\ ~SameQuotient(returned[1].success_rate,
                     <<returned[1].successful_requests,
                       returned[1].total_requests>>)

\* C20: when the window is empty, get_stats() returns a snapshot whose derived
\* fields are all zero and whose start_time is the monitor's session
\* start_time, however much time has passed since the session started.
C20_EmptySnapshotCarriesSessionStart ==
    (returned # <<>> /\ scrape_times = <<>>) =>
      /\ returned[1] = DefaultStats(returned[1].start_time)
      /\ returned[1].start_time = start_time

\* C21: two consecutive get_stats() calls with no add_scrape between them
\* return identical snapshots in every field, in every monitor state and
\* however much time elapses between the two calls.
C21_ConsecutiveSnapshotsIdentical ==
    (previous # <<>> /\ returned # <<>>) => returned = previous

\* C22: the snapshot get_stats() returns has total_requests and
\* successful_requests equal to the current lifetime counters, on a monitor
\* of any window size the constructor accepts.
C22_SnapshotCountsAreCurrent ==
    returned # <<>> =>
      /\ returned[1].total_requests = total_requests
      /\ returned[1].successful_requests = successful_requests

\* What get_stats_dict() returns when every statistic and the uptime are zero.
ZeroDict ==
    [avg_time |-> 0, min_time |-> 0, max_time |-> 0, success_rate |-> 0,
     total_requests |-> 0, successful_requests |-> 0,
     requests_per_minute |-> 0, uptime_minutes |-> 0]

\* C23: from any monitor state, a cached snapshot included, reset() empties
\* both windows, zeroes total_requests and successful_requests, sets
\* start_time to now and drops the cached snapshot; get_stats_dict() called
\* right after it returns zero for every statistic and for uptime_minutes.
C23_ResetRestoresBaseline ==
    afterReset # <<>> =>
      /\ scrape_times = <<>>
      /\ success_history = <<>>
      /\ total_requests = 0
      /\ successful_requests = 0
      /\ start_time = afterReset[1].at
      /\ last_stats = <<>>
      /\ (reported # <<>> /\ reported[1].at = afterReset[1].at) =>
           reported[1].dict = ZeroDict

\* C23 witness: reset() was called on a monitor holding a cached snapshot,
\* some time into the session, and get_stats_dict() was called right after.
C23_Witness ==
    /\ afterReset # <<>>
    /\ afterReset[1].cached
    /\ afterReset[1].at > 0
    /\ reported # <<>>
    /\ reported[1].at = afterReset[1].at

\* C24: get_stats_dict() reports as uptime_minutes the time from the monitor's
\* session start_time to the moment of the call, in every monitor state, the
\* empty window included.
C24_UptimeSinceSessionStart ==
    reported # <<>> =>
      reported[1].dict.uptime_minutes = 10 * (reported[1].at - start_time)

\* C25: when add_scrape and get_stats are called by several callers whose
\* statements interleave, no caller observes the two windows with different
\* lengths, no update to total_requests or successful_requests is lost, and a
\* snapshot computed before a concurrent add_scrape is not left in the cache
\* once that add_scrape has completed.
C25_ConcurrentCallsSerialized ==
    /\ \A t \in Threads :
         Len(threads[t].seen) = 2 => threads[t].seen[1] = threads[t].seen[2]
    /\ AllIdle =>
         /\ total_requests = Len(scrapeLog)
         /\ successful_requests =
              Cardinality({ i \in 1..Len(scrapeLog) : scrapeLog[i].success })
         /\ last_stats # <<>> =>
              /\ last_stats[1].total_requests = total_requests
              /\ last_stats[1].avg_time = Mean(scrape_times)

\* C26: constructing a ProxyConfig fails with ValueError when
\* rotation_interval <= 0, when max_retries <= 0, when an entry of urls lacks
\* a scheme or a network location, or when enabled is true with no urls;
\* otherwise the object is built with the given values, and ProxyConfig()
\* with the defaults (disabled, no urls, 300, 3) is built.
C26_ProxyConfigRejectedExactlyWhenInvalid ==
    proxyCall \notin {"args", "imported"} =>
      /\ (proxyCall = "ValueError") <=>
           \/ proxyArgs.rotation_interval <= 0
           \/ proxyArgs.max_retries <= 0
           \/ \E i \in 1..Len(proxyArgs.urls) :
                \/ Scheme(proxyArgs.urls[i]) = <<>>
                \/ Netloc(proxyArgs.urls[i]) = <<>>
           \/ proxyArgs.enabled /\ proxyArgs.urls = <<>>
      /\ (proxyCall # "ValueError") <=> (proxy = <<proxyArgs>>)
      /\ proxyArgs = DefaultProxyArgs => proxyCall = "built"

\* The class taken by itself: an enabled ProxyConfig with two URLs is built.
ProxyClassBuildsTwoUrls ==
    /\ proxyCall = "built"
    /\ proxy[1].enabled
    /\ Len(proxy[1].urls) = 2
    /\ proxy[1].urls[1] # proxy[1].urls[2]

\* C28: an acquire() call suspends at most once: the token count stays
\* strictly above -1 token, and a call that returns from its sleep is granted
\* at once (the wait loop runs no second iteration).
C28_SingleSleepSuffices ==
    /\ [](tokens > -OneToken)
    /\ [][(\E i \in 1..Len(sleepers) : WakeUp(i)) =>
            /\ ~NoToken(RefillTokens(tokens, last_update, now))
            /\ sleepers' = <<>>
            /\ lastCall' = "granted_slept"]_vars

\* C28 witness: a call that slept was granted from a count that its sleep
\* had brought from below zero to less than one token.
C28_Witness ==
    /\ lastCall = "granted_slept"
    /\ lastGrant = <<now>>
    /\ tokens < 0

\* C30: the closed flag is permanent: no step of any operation (acquire,
\* close, cleanup_history, get_request_count, context-manager entry or exit)
\* sets it back to false; __aenter__ fails exactly on a closed limiter; and
\* __aexit__ closes the limiter, at once or, behind the lock's holder, when
\* its queued close() is handed the lock.
C30_ClosedIsPermanent ==
    [][/\ closed => closed'
       /\ CallEnter => (lastCall' = "enter_rejected" <=> closed)
       /\ CallExit => \/ closed'
                      \/ /\ Len(waiters') = Len(waiters) + 1
                         /\ waiters'[Len(waiters')].op = "close"
       /\ FinaliseStep => closed']_vars

\* C30 witness: __aenter__ was refused on a closed limiter.
C30_Witness ==
    /\ closed
    /\ lastCall = "enter_rejected"

\* An acquire() call is cancelled in this step.
CancelStep ==
    \/ \E i \in 1..Len(sleepers) : CancelSleeping(i)
    \/ \E i \in 1..Len(waiters) : CancelWaiting(i)

\* C29: when an acquire() call is cancelled in its wait loop or while waiting
\* for the lock, the token count is not decremented and no history entry is
\* written; the lock is never left held by a call that is gone (it is held
\* only while a call sleeps in the section), so that later acquire() and
\* close() calls can still enter the section.
C29_CancelledCallLeavesNoTrace ==
    /\ [](locked => sleepers # <<>>)
    /\ [][CancelStep =>
            /\ tokens' = tokens
            /\ request_history' = request_history
            /\ closed' = closed]_vars
    /\ [][(\E i \in 1..Len(sleepers) : CancelSleeping(i)) =>
            /\ ~locked'
            /\ waiters' = waiters]_vars

\* C29 witness: the call that slept in the section was cancelled while
\* another call is queued for the lock, which is free again.
C29_Witness ==
    /\ lastCall = "cancelled_sleeping"
    /\ ~locked
    /\ waiters # <<>>
    /\ sleepers = <<>>

\* C27: every acquire() call that comes to wait on a limiter that was not
\* closed when it was made eventually returns, and with a grant, when the
\* clock advances and the tasks waiting for the lock are run: the call sleeps
\* the computed delay, refills and re-checks, and its loop terminates.
C27_EveryWaitingAcquireIsGranted ==
    /\ (tracked # 0) ~> (tracked = 0)
    /\ [][(tracked # 0 /\ tracked' = 0) =>
            /\ lastGrant' = <<now'>>
            /\ tokens' = RefillTokens(tokens, last_update, now) - OneToken]_vars

\* C27 witness: the followed call has slept its delay in the section, with
\* other calls queued behind it.
C27_Witness ==
    /\ tracked = -1
    /\ waiters # <<>>
    /\ DelayElapsed(sleepers[1].start, now)

\* C31: in every state reachable by add_scrape, get_stats, get_stats_dict and
\* reset calls made one after another, the duration window and the success
\* window have the same length, that length is at most window_size, and
\* 0 <= successful_requests <= total_requests.
C31_WindowsInLockstepCountersOrdered ==
    /\ Len(scrape_times) = Len(success_history)
    /\ Len(scrape_times) <= window_size
    /\ 0 <= successful_requests
    /\ successful_requests <= total_requests

\* C31 witness: more calls than the window holds, a failure among them, so
\* that both windows are full after an eviction and the counters differ.
C31_Witness ==
    /\ window_size > 0
    /\ Len(scrapeLog) > window_size
    /\ Len(scrape_times) = window_size
    /\ Len(success_history) = window_size
    /\ 0 < successful_requests
    /\ successful_requests < total_requests
    /\ \E i \in 1..Len(success_history) : ~success_history[i]

=============================================================================
